---- MODULE Spec2Model ----
(***************************************************************************)
(* A model of alloc-bump-rs (src/src/lib.rs): BumpAlloc, a fixed-capacity  *)
(* bump-down arena.  The arena owns one block [data, data + layout.size)   *)
(* obtained from a backing allocator and a cursor `ptr` that starts at the *)
(* end of the block and moves towards `data`.                              *)
(***************************************************************************)
EXTENDS Integers, FiniteSets, Sequences, TLC

\* ------------------------------------------------------------------ bounds
\* Width of usize in bits: addresses are 0 .. 2^WordBits - 1.
WordBits == 5
\* The backing allocator returns blocks at addresses 1 .. MaxBase.
MaxBase == 4
\* Capacities passed to construction are 0 .. MaxCap.
MaxCap == 8
\* Requested sizes are 1 .. MaxSize.
MaxSize == 4
\* Requested alignments are 2^0 .. 2^MaxAlignLog.
MaxAlignLog == 3
\* size_of::<f32>(), the value size of the tests (lib.rs:157)
F32Size == 4

\* Values written by alloc_t are bytes 1 .. MaxVal.
MaxVal == 2
\* Capacities of the arenas whose bytes are followed (SpecT) are 0 .. MaxValCap.
MaxValCap == 2

RECURSIVE Pow2(_)
Pow2(n) == IF n = 0 THEN 1 ELSE 2 * Pow2(n - 1)

Modulus == Pow2(WordBits)
MaxAddr == Modulus - 1
Addr == 0 .. MaxAddr

None == -1
\* A byte of the block no one has written yet.
Uninit == 0
Bytes == 1 .. MaxVal

Sizes == 1 .. MaxSize
Aligns == {Pow2(k) : k \in 0 .. MaxAlignLog}
\* NonZeroLayout: size > 0, align a power of two.
Layouts == [size : Sizes, align : Aligns]
NoLayout == [size |-> 0, align |-> 0]
\* Layouts of Rust types: the size is a multiple of the alignment.
TypeLayouts == {l \in Layouts : l.size % l.align = 0}

\* ------------------------------------------------------- usize arithmetic
RECURSIVE BitAndN(_, _, _)
BitAndN(x, y, n) ==
    IF n = 0 THEN 0
    ELSE (x % 2) * (y % 2) + 2 * BitAndN(x \div 2, y \div 2, n - 1)

\* x & y on usize
BitAnd(x, y) == BitAndN(x, y, WordBits)

\* !x on usize
BitNot(x) == MaxAddr - x

\* usize::checked_sub
checked_sub(x, y) == IF y > x THEN None ELSE x - y

\* usize + usize (wrapping)
wrapping_add(x, y) == (x + y) % Modulus

Min(x, y) == IF x < y THEN x ELSE y

\* ------------------------------------------------------------------ state
VARIABLES
    arena,        \* "none" | "live" | "dropped": the lifecycle of the BumpAlloc value
    data,         \* BumpAlloc.data: base address of the block
    layout,       \* BumpAlloc.layout: [size |-> capacity, align |-> 1]
    ptr,          \* BumpAlloc.ptr: the cursor
    build_alloc,  \* BumpAlloc.build_alloc: handle of the backing allocator
    mem,          \* the bytes of the block, by address
    backing,      \* the backing allocator: calls made to it and the block it gave
    ret,          \* the last call and the Result it returned
    last,         \* the block handed out last since the last rewind, with its layout
    live,         \* addresses handed out by successful allocations since the last rewind
    used,         \* sum of the sizes of those allocations
    epoch,        \* "new" | "reset": what rewound the cursor last
    first,        \* by layout, what an allocate made right after construction returns
    calls,        \* by thread, the alloc call it is in: where it is and its locals
    copy          \* the BumpAlloc value that clone() made, with the blocks it handed out

vars == <<arena, data, layout, ptr, build_alloc, mem, backing, ret, last, live, used,
          epoch, first, calls, copy>>

Threads == {1, 2}

\* pc: "idle" | "read" (lib.rs:120 done) | "stored" (lib.rs:133 done) | "done";
\* seen: the cursor read at lib.rs:120; new_ptr: the value stored at lib.rs:133;
\* alone: no other call was between its read and its return during this call
NoCall == [pc |-> "idle", l |-> NoLayout, seen |-> None, new_ptr |-> None,
           ok |-> FALSE, ptr |-> None, alone |-> TRUE]

NoCopy == [made |-> FALSE, data |-> None, layout |-> NoLayout, ptr |-> None,
           live |-> {}]

arenaFields == <<data, layout, ptr, build_alloc>>

NoBlock == [ptr |-> None, size |-> 0, align |-> 0, val |-> Uninit]

\* cap: the capacity passed to a constructor; old: the block passed to realloc or
\* dealloc; err, layout, inner: the error returned; panic: the panic raised instead;
\* found: the byte at the returned address when the call began
NoRet == [op |-> "none", ok |-> FALSE, err |-> "none", ptr |-> None,
          layout |-> NoLayout, inner |-> "none", panic |-> "none", cap |-> None,
          old |-> NoBlock, found |-> Uninit]

Range(p, n) == p .. (p + n - 1)
RangeOf(b) == Range(b.ptr, b.size)
Block == Range(data, layout.size)
AllocOps == {"alloc", "alloc_t", "realloc"}
ResetOps == {"reset", "reset_unchecked"}
BuildOps == {"try_with_capacity_in", "with_capacity_in"}

\* ------------------------------------------------------- backing allocator
\* What `a.alloc(layout)` may answer: a block at any non-null address that fits
\* in the address space (the layout asks for alignment 1), or the allocator's error.
BackingAnswers(l) ==
    {[ok |-> TRUE, ptr |-> b, err |-> "none"] :
        b \in {x \in 1 .. MaxBase : x + l.size <= MaxAddr}}
    \cup {[ok |-> FALSE, ptr |-> None, err |-> "inner"]}

\* ------------------------------------------------------------ pure functions
\* Mutant of round_down: rounds up to the alignment.
round_up(new_ptr, align) == BitAnd(wrapping_add(new_ptr, align - 1), BitNot(align - 1))

\* Mutant of round_down: no rounding at all.
round_none(new_ptr, align) == new_ptr

\* lib.rs:124  new_ptr & !(layout.align().get() - 1)
round_down(new_ptr, align) == BitAnd(new_ptr, BitNot(align - 1))

\* Mutant of alloc: the comparison with the start of the block is left out.
alloc_no_start_check(self_ptr, self_data, l) ==
    LET sub == checked_sub(self_ptr, l.size) IN
    IF sub = None
    THEN [ok |-> FALSE, ptr |-> None, cursor |-> self_ptr]
    ELSE LET new_ptr == round_down(sub, l.align) IN
         [ok |-> TRUE, ptr |-> new_ptr, cursor |-> new_ptr]

\* Mutant of alloc: the cursor is stored before the comparison with the start.
alloc_store_first(self_ptr, self_data, l) ==
    LET sub == checked_sub(self_ptr, l.size) IN
    IF sub = None
    THEN [ok |-> FALSE, ptr |-> None, cursor |-> self_ptr]
    ELSE LET new_ptr == round_down(sub, l.align)
             start == self_data IN
         IF new_ptr < start
         THEN [ok |-> FALSE, ptr |-> None, cursor |-> new_ptr]
         ELSE [ok |-> TRUE, ptr |-> new_ptr, cursor |-> new_ptr]

\* Mutant of alloc: a block that starts exactly at the start is refused.
alloc_strict_start(self_ptr, self_data, l) ==
    LET sub == checked_sub(self_ptr, l.size) IN
    IF sub = None
    THEN [ok |-> FALSE, ptr |-> None, cursor |-> self_ptr]
    ELSE LET new_ptr == round_down(sub, l.align)
             start == self_data IN
         IF new_ptr <= start
         THEN [ok |-> FALSE, ptr |-> None, cursor |-> self_ptr]
         ELSE [ok |-> TRUE, ptr |-> new_ptr, cursor |-> new_ptr]

\* lib.rs:119-135  <&BumpAlloc as AllocRef>::alloc
\* Returns the Result and the value self.ptr holds afterwards.
alloc(self_ptr, self_data, l) ==
    LET sub == checked_sub(self_ptr, l.size) IN
    IF sub = None
    THEN [ok |-> FALSE, ptr |-> None, cursor |-> self_ptr]
    ELSE LET new_ptr == round_down(sub, l.align)
             start == self_data IN
         IF new_ptr < start
         THEN [ok |-> FALSE, ptr |-> None, cursor |-> self_ptr]
         ELSE [ok |-> TRUE, ptr |-> new_ptr, cursor |-> new_ptr]

\* Mutant of realloc: the block at the cursor is extended in place.
realloc_in_place(self_ptr, self_data, p, old_layout, new_layout) ==
    LET new_ptr == p - (new_layout.size - old_layout.size) IN
    IF p = self_ptr /\ new_layout.size >= old_layout.size /\ new_ptr >= self_data
    THEN [ok |-> TRUE, ptr |-> new_ptr, cursor |-> new_ptr]
    ELSE alloc(self_ptr, self_data, new_layout)

\* lib.rs:139-147  <&BumpAlloc as ReallocRef>::realloc
realloc(self_ptr, self_data, p, old_layout, new_layout) ==
    alloc(self_ptr, self_data, new_layout)

\* Mutant of dealloc: freeing the block at the cursor gives its bytes back.
dealloc_lifo(self_ptr, p, l) == IF p = self_ptr THEN self_ptr + l.size ELSE self_ptr

\* lib.rs:110  <&BumpAlloc as DeallocRef>::dealloc: the value self.ptr holds afterwards
dealloc(self_ptr, p, l) == self_ptr

\* Mutant of reset_unchecked: the size of the block is not added.
reset_to_data(self_data, self_layout) == self_data

\* lib.rs:84-88  BumpAlloc::reset_unchecked: the value self.ptr holds afterwards
reset_unchecked(self_data, self_layout) ==
    LET new_ptr == self_data IN wrapping_add(new_ptr, self_layout.size)

\* lib.rs:78-82  BumpAlloc::reset
reset(self_data, self_layout) == reset_unchecked(self_data, self_layout)

\* Mutant of try_with_capacity_in: capacity 0 is not rejected.
try_with_capacity_in_no_zero_check(capacity, answer) ==
    LET l == [size |-> capacity, align |-> 1] IN
    IF ~answer.ok
    THEN [ok |-> FALSE, err |-> "AllocError", layout |-> l, inner |-> answer.err,
          panic |-> "none", data |-> None, ptr |-> None, calls |-> 1]
    ELSE [ok |-> TRUE, err |-> "none", layout |-> l, inner |-> "none",
          panic |-> "none", data |-> answer.ptr,
          ptr |-> wrapping_add(answer.ptr, l.size), calls |-> 1]

\* Mutant of try_with_capacity_in: the cursor starts at the start of the block.
try_with_capacity_in_cursor_at_data(capacity, answer) ==
    IF capacity = 0
    THEN [ok |-> FALSE, err |-> "ZeroCapacity", layout |-> NoLayout, inner |-> "none",
          panic |-> "none", data |-> None, ptr |-> None, calls |-> 0]
    ELSE LET l == [size |-> capacity, align |-> 1] IN
         IF ~answer.ok
         THEN [ok |-> FALSE, err |-> "AllocError", layout |-> l, inner |-> answer.err,
               panic |-> "none", data |-> None, ptr |-> None, calls |-> 1]
         ELSE [ok |-> TRUE, err |-> "none", layout |-> l, inner |-> "none",
               panic |-> "none", data |-> answer.ptr, ptr |-> answer.ptr, calls |-> 1]

\* lib.rs:36-61  BumpAlloc::try_with_capacity_in
\* `answer` is what the backing allocator answers if it is asked; `calls` counts
\* the calls of a.alloc the function makes.
try_with_capacity_in(capacity, answer) ==
    IF capacity = 0
    THEN [ok |-> FALSE, err |-> "ZeroCapacity", layout |-> NoLayout, inner |-> "none",
          panic |-> "none", data |-> None, ptr |-> None, calls |-> 0]
    ELSE LET l == [size |-> capacity, align |-> 1] IN
         IF ~answer.ok
         THEN [ok |-> FALSE, err |-> "AllocError", layout |-> l, inner |-> answer.err,
               panic |-> "none", data |-> None, ptr |-> None, calls |-> 1]
         ELSE [ok |-> TRUE, err |-> "none", layout |-> l, inner |-> "none",
               panic |-> "none", data |-> answer.ptr,
               ptr |-> wrapping_add(answer.ptr, l.size), calls |-> 1]

\* lib.rs:28-34  BumpAlloc::with_capacity_in: Ok is passed on, an Err panics
with_capacity_in(capacity, answer) ==
    LET r == try_with_capacity_in(capacity, answer) IN
    IF r.ok THEN r
    ELSE IF r.err = "ZeroCapacity"
         THEN [r EXCEPT !.panic = "zero capacity"]
         ELSE [r EXCEPT !.panic = "Infallible allocation"]

\* Mutant of alloc_t_write: the value is not written.
alloc_t_no_write(m, r, l, val) == m

\* lib.rs:73  ptr::write(ptr, val): the bytes of the block afterwards
alloc_t_write(m, r, l, val) ==
    IF r.ok
    THEN [x \in DOMAIN m |-> IF x \in Range(r.ptr, l.size) THEN val ELSE m[x]]
    ELSE m

\* lib.rs:19-25  what dropping a BumpAlloc passes to the backing allocator's
\* dealloc: the struct has no Drop impl and no field that owns the block.
drop_deallocs(handle) == 0

\* ------------------------------------------------------------------ actions
Init ==
    /\ arena = "none"
    /\ data = None
    /\ layout = NoLayout
    /\ ptr = None
    /\ build_alloc = "none"
    /\ mem = <<>>
    /\ backing = [allocs |-> 0, deallocs |-> 0, block |-> None]
    /\ ret = NoRet
    /\ last = NoBlock
    /\ live = {}
    /\ used = 0
    /\ epoch = "new"
    /\ first = <<>>
    /\ calls = [t \in Threads |-> NoCall]
    /\ copy = NoCopy

\* The effect of a construction attempt whose try_with_capacity_in returned r.
Constructed(op, capacity, r) ==
    /\ backing' = [backing EXCEPT !.allocs = @ + r.calls,
                                  !.block = IF r.ok THEN r.data ELSE @]
    /\ ret' = [NoRet EXCEPT !.op = op, !.ok = r.ok, !.err = r.err, !.ptr = r.data,
                            !.layout = r.layout, !.inner = r.inner,
                            !.panic = r.panic, !.cap = capacity]
    /\ IF r.ok
       THEN /\ arena' = "live"
            /\ data' = r.data
            /\ layout' = r.layout
            /\ ptr' = r.ptr
            /\ build_alloc' = "a"
            /\ mem' = [x \in Range(r.data, r.layout.size) |-> Uninit]
            /\ first' = [l \in Layouts |-> alloc(r.ptr, r.data, l)]
       ELSE UNCHANGED <<arena, data, layout, ptr, build_alloc, mem, first>>
    /\ UNCHANGED <<last, live, used, epoch>>
    /\ UNCHANGED <<calls, copy>>

\* lib.rs:36-61, with capacities 0 .. maxcap
TryWithCapacityIn(maxcap) ==
    /\ arena = "none"
    /\ ret.op = "none"
    /\ \E capacity \in 0 .. maxcap :
       \E answer \in BackingAnswers([size |-> capacity, align |-> 1]) :
          Constructed("try_with_capacity_in", capacity,
                      try_with_capacity_in(capacity, answer))

\* lib.rs:28-34: the wrapper panics on either error of try_with_capacity_in
WithCapacityIn(maxcap) ==
    /\ arena = "none"
    /\ ret.op = "none"
    /\ \E capacity \in 0 .. maxcap :
       \E answer \in BackingAnswers([size |-> capacity, align |-> 1]) :
          Constructed("with_capacity_in", capacity,
                      with_capacity_in(capacity, answer))

\* The bookkeeping of a call of alloc / realloc / alloc_t that returned r.
Allocated(op, l, r, old, val) ==
    /\ ptr' = r.cursor
    /\ ret' = [NoRet EXCEPT !.op = op, !.ok = r.ok,
                            !.err = IF r.ok THEN "none" ELSE "AllocErr",
                            !.ptr = r.ptr, !.old = old,
                            !.found = IF r.ok /\ r.ptr \in DOMAIN mem
                                      THEN mem[r.ptr] ELSE Uninit]
    /\ last' = IF r.ok
               THEN [ptr |-> r.ptr, size |-> l.size, align |-> l.align, val |-> val]
               ELSE last
    /\ live' = IF r.ok THEN live \cup Range(r.ptr, l.size) ELSE live
    /\ used' = IF r.ok THEN used + l.size ELSE used
    /\ UNCHANGED <<arena, data, layout, build_alloc, backing, epoch, first>>
    /\ UNCHANGED <<calls, copy>>

\* lib.rs:119-135
Alloc ==
    /\ arena = "live"
    /\ \E l \in Layouts :
          /\ Allocated("alloc", l, alloc(ptr, data, l), NoBlock, Uninit)
          /\ UNCHANGED mem

\* lib.rs:63-76: allocate room for a T and write val into it
AllocT ==
    /\ arena = "live"
    /\ \E l \in TypeLayouts, val \in Bytes :
          LET r == alloc(ptr, data, l) IN
          /\ Allocated("alloc_t", l, r, NoBlock, val)
          /\ mem' = alloc_t_write(mem, r, l, val)

\* Blocks a caller holds: the one handed out last.
Held == IF last = NoBlock THEN {} ELSE {last}

\* lib.rs:139-147: grow or shrink the block the caller got last
Realloc ==
    /\ arena = "live"
    /\ \E old \in Held, new_layout \in Layouts :
          LET old_layout == [size |-> old.size, align |-> old.align] IN
          /\ Allocated("realloc", new_layout,
                       realloc(ptr, data, old.ptr, old_layout, new_layout), old, Uninit)
          /\ UNCHANGED mem

\* lib.rs:110: the block handed out last, or any other address and layout
Dealloc ==
    /\ arena = "live"
    /\ \E old \in Held \cup {[NoBlock EXCEPT !.ptr = data, !.size = 1, !.align = 1]} :
          /\ ptr' = dealloc(ptr, old.ptr, [size |-> old.size, align |-> old.align])
          /\ ret' = [NoRet EXCEPT !.op = "dealloc", !.ok = TRUE, !.old = old]
    /\ UNCHANGED <<arena, data, layout, build_alloc, mem, backing, last, live, used,
                   epoch, first>>
    /\ UNCHANGED <<calls, copy>>

\* Mutant of Rewound: the new value is stored in data, not in ptr.
Rewound_sets_data(op, new_ptr) ==
    /\ data' = new_ptr
    /\ ret' = [NoRet EXCEPT !.op = op, !.ok = TRUE]
    /\ last' = NoBlock
    /\ live' = {}
    /\ used' = 0
    /\ epoch' = "reset"
    /\ UNCHANGED <<arena, ptr, layout, build_alloc, mem, backing, first>>
    /\ UNCHANGED <<calls, copy>>

\* lib.rs:84-88: the effect of reset_unchecked, which stores new_ptr
Rewound(op, new_ptr) ==
    /\ ptr' = new_ptr
    /\ ret' = [NoRet EXCEPT !.op = op, !.ok = TRUE]
    /\ last' = NoBlock
    /\ live' = {}
    /\ used' = 0
    /\ epoch' = "reset"
    /\ UNCHANGED <<arena, data, layout, build_alloc, mem, backing, first>>
    /\ UNCHANGED <<calls, copy>>

\* lib.rs:78-82
Reset ==
    /\ arena = "live"
    /\ Rewound("reset", reset(data, layout))

\* lib.rs:84-88
ResetUnchecked ==
    /\ arena = "live"
    /\ Rewound("reset_unchecked", reset_unchecked(data, layout))

\* lib.rs:19-25: BumpAlloc has no Drop impl; dropping the value drops its fields,
\* none of which releases the block.
Drop ==
    /\ arena = "live"
    /\ arena' = "dropped"
    /\ backing' = [backing EXCEPT !.deallocs = @ + drop_deallocs(build_alloc)]
    /\ ret' = [NoRet EXCEPT !.op = "drop", !.ok = TRUE]
    /\ UNCHANGED <<data, layout, ptr, build_alloc, mem, last, live, used, epoch, first>>
    /\ UNCHANGED <<calls, copy>>

\* ---- alloc called by two threads on one arena (the type is not Sync: only
\* unsafe code can share it).  The call is the load of lib.rs:120, the store of
\* lib.rs:132-133 and the load of lib.rs:134, with nothing that orders them
\* against the other thread's.
InFlight(t) == calls[t].pc \in {"read", "stored"}

\* lib.rs:120  let ptr = self.ptr.get()
AllocRead ==
    /\ arena = "live"
    /\ \E t \in Threads, l \in Layouts :
          /\ calls[t].pc = "idle"
          /\ calls' = [u \in Threads |->
                         IF u = t
                         THEN [NoCall EXCEPT !.pc = "read", !.l = l, !.seen = ptr,
                                             !.alone = \A v \in Threads \ {t} :
                                                          ~InFlight(v)]
                         ELSE IF InFlight(u) THEN [calls[u] EXCEPT !.alone = FALSE]
                         ELSE calls[u]]
    /\ UNCHANGED <<arena, data, layout, ptr, build_alloc, mem, backing, ret, last,
                   live, used, epoch, first, copy>>

\* lib.rs:121-133  the checks on the value read, then self.ptr.set(new_ptr)
AllocStore ==
    /\ arena = "live"
    /\ \E t \in Threads :
          /\ calls[t].pc = "read"
          /\ LET r == alloc(calls[t].seen, data, calls[t].l) IN
             IF r.ok
             THEN /\ ptr' = r.cursor
                  /\ calls' = [calls EXCEPT ![t].pc = "stored", ![t].new_ptr = r.ptr]
             ELSE /\ ptr' = ptr
                  /\ calls' = [calls EXCEPT ![t].pc = "done", ![t].ok = FALSE]
    /\ UNCHANGED <<arena, data, layout, build_alloc, mem, backing, ret, last,
                   live, used, epoch, first, copy>>

\* lib.rs:134  Ok(self.ptr.get())
AllocReturn ==
    /\ arena = "live"
    /\ \E t \in Threads :
          /\ calls[t].pc = "stored"
          /\ calls' = [calls EXCEPT ![t].pc = "done", ![t].ok = TRUE, ![t].ptr = ptr]
    /\ UNCHANGED <<arena, data, layout, ptr, build_alloc, mem, backing, ret, last,
                   live, used, epoch, first, copy>>

\* ---- clone
\* lib.rs:19  #[derive(Clone)]: every field is cloned; the Cell is a new Cell
\* holding the same address.
clone(self_data, self_layout, self_ptr) ==
    [made |-> TRUE, data |-> self_data, layout |-> self_layout, ptr |-> self_ptr,
     live |-> {}]

\* lib.rs:19
Clone ==
    /\ arena = "live"
    /\ ~copy.made
    /\ copy' = clone(data, layout, ptr)
    /\ ret' = [NoRet EXCEPT !.op = "clone", !.ok = TRUE]
    /\ UNCHANGED <<arena, data, layout, ptr, build_alloc, mem, backing, last, live,
                   used, epoch, first, calls>>

\* lib.rs:119-135, called on the clone
CopyAlloc ==
    /\ arena = "live"
    /\ copy.made
    /\ \E l \in Layouts :
          LET r == alloc(copy.ptr, copy.data, l) IN
          /\ copy' = [copy EXCEPT !.ptr = r.cursor,
                                  !.live = IF r.ok THEN @ \cup Range(r.ptr, l.size)
                                           ELSE @]
          /\ ret' = [NoRet EXCEPT !.op = "copy.alloc", !.ok = r.ok,
                                  !.err = IF r.ok THEN "none" ELSE "AllocErr",
                                  !.ptr = r.ptr]
    /\ UNCHANGED <<arena, data, layout, ptr, build_alloc, mem, backing, last, live,
                   used, epoch, first, calls>>

\* lib.rs:84-88, called on the clone
CopyResetUnchecked ==
    /\ arena = "live"
    /\ copy.made
    /\ copy' = [copy EXCEPT !.ptr = reset_unchecked(copy.data, copy.layout),
                            !.live = {}]
    /\ ret' = [NoRet EXCEPT !.op = "copy.reset_unchecked", !.ok = TRUE]
    /\ UNCHANGED <<arena, data, layout, ptr, build_alloc, mem, backing, last, live,
                   used, epoch, first, calls>>

\* The operations on the cursor, at capacities up to MaxCap.
Next ==
    \/ TryWithCapacityIn(MaxCap)
    \/ WithCapacityIn(MaxCap)
    \/ Alloc
    \/ Realloc
    \/ Dealloc
    \/ Reset
    \/ ResetUnchecked
    \/ Drop

Spec == Init /\ [][Next]_vars

\* The same with alloc_t, which writes the block, at capacities up to MaxValCap.
NextT ==
    \/ TryWithCapacityIn(MaxValCap)
    \/ WithCapacityIn(MaxValCap)
    \/ Alloc
    \/ AllocT
    \/ Realloc
    \/ Dealloc
    \/ Reset
    \/ ResetUnchecked
    \/ Drop

SpecT == Init /\ [][NextT]_vars

\* ------------------------------------------------------------------ claims
Live == arena = "live"
\* The last call was a successful allocation; `last` is the block it returned.
Returned == ret.ok /\ ret.op \in AllocOps
LayoutOf(b) == [size |-> b.size, align |-> b.align]

\* C1: the ranges returned by the successful allocations since the last rewind
\* are pairwise disjoint (their sizes add up to the number of addresses they
\* cover) and each lies inside [data, data + capacity).
C1_DisjointInBlock ==
    Live => /\ Cardinality(live) = used
            /\ live \subseteq Block
            /\ Returned => /\ RangeOf(last) \subseteq Block
                           /\ ret.ptr = last.ptr

\* Three or more blocks, one of them after alignment padding, after a reset.
C1_Witness ==
    /\ Live /\ Returned /\ epoch = "reset"
    /\ used >= last.size + 2
    /\ \E x \in Block : x \notin live /\ x > ptr

\* C2: every address a successful allocation returns is a multiple of the
\* requested alignment.
C2_Aligned ==
    (Live /\ Returned) => ret.ptr % last.align = 0

\* An alignment larger than the capacity, in a block that is not aligned to it.
C2_Witness ==
    /\ Live /\ Returned
    /\ last.align > layout.size
    /\ data % last.align # 0

\* C3: reset and reset_unchecked leave the cursor at data + capacity, and the
\* first successful allocate after them returns the address an allocate of the
\* same layout made right after construction returns.
C3_ResetRewinds ==
    Live => /\ ret.op \in ResetOps => ptr = data + layout.size
            /\ (Returned /\ ret.op # "realloc" /\ epoch = "reset" /\ used = last.size)
                  => /\ first[LayoutOf(last)].ok
                     /\ ret.ptr = first[LayoutOf(last)].ptr

\* The first allocation after a reset.
C3_Witness ==
    /\ Live /\ Returned /\ ret.op = "alloc" /\ epoch = "reset" /\ used = last.size
    /\ last.align > 1

F32Layout == [size |-> F32Size, align |-> F32Size]

\* C4: in a freshly created arena of capacity 2 * 4, two successive allocations
\* of size 4 and alignment 4 both succeed, whatever address the block has.
C4_TwoValuesFit ==
    (Live /\ ret.op \in BuildOps /\ layout.size = 2 * F32Size)
       => LET a == alloc(ptr, data, F32Layout) IN
          /\ a.ok
          /\ alloc(a.cursor, data, F32Layout).ok

\* C5: the sizes of the successful allocations since the last rewind never add
\* up to more than the capacity, and once they add up to the capacity every
\* allocate fails.
C5_NeverOverCapacity ==
    Live => /\ used <= layout.size
            /\ used = layout.size => \A l \in Layouts : ~alloc(ptr, data, l).ok

\* One allocation of the whole capacity, then an allocate that failed.
C5_Witness ==
    /\ Live /\ used = layout.size /\ last.size = layout.size
    /\ ret.op = "alloc" /\ ~ret.ok

\* C6: a failed allocate changes neither the cursor nor anything else of the
\* arena (every later allocate, realloc and reset reads only these fields, so it
\* answers as if the failed call had not been made).
C6_FailedAllocNoEffect ==
    [][(ret'.op \in AllocOps /\ ~ret'.ok)
          => /\ UNCHANGED <<arena, data, layout, ptr, build_alloc, mem, backing>>
             /\ UNCHANGED <<last, live, used, epoch, first>>
             /\ ret'.err = "AllocErr"]_vars

\* After a failed allocate a smaller request still fits.
C6_Witness ==
    /\ Live /\ ret.op = "alloc" /\ ~ret.ok
    /\ used > 0
    /\ \E l \in Layouts : alloc(ptr, data, l).ok

\* C7: construction with capacity 0 ends with the ZeroCapacity error, without a
\* call of the backing allocator and without an arena.
C7_ZeroCapacity ==
    (ret.op \in BuildOps /\ ret.cap = 0)
       => /\ ~ret.ok
          /\ ret.err = "ZeroCapacity"
          /\ backing.allocs = 0
          /\ arena = "none"
          /\ data = None

C7_Witness ==
    ret.op = "try_with_capacity_in" /\ ret.cap = 0 /\ ret.err = "ZeroCapacity"

\* C8: over the life of an arena the backing allocator's alloc is called once,
\* at construction, and its dealloc once, at destruction, with the arena's block.
C8_BackingOnceEach ==
    /\ arena = "live" => backing.allocs = 1 /\ backing.deallocs = 0
    /\ arena = "dropped" => backing.allocs = 1 /\ backing.deallocs = 1

\* C9: dealloc succeeds and changes nothing, whatever it is given: the cursor,
\* the block and every later allocate's answer are as before, and the range it
\* was given is not handed out again before a reset.
C9_DeallocNoOp ==
    /\ [](ret.op = "dealloc"
            => \A l \in Layouts :
                  LET r == alloc(ptr, data, l) IN
                  r.ok => Range(r.ptr, l.size) \cap (RangeOf(ret.old) \cap live) = {})
    /\ [][ret'.op = "dealloc"
            => /\ ret'.ok
               /\ UNCHANGED <<arena, data, layout, ptr, build_alloc, mem, backing>>
               /\ UNCHANGED <<last, live, used>>
               /\ \A l \in Layouts : alloc(ptr', data', l) = alloc(ptr, data, l)]_vars

\* The block handed out last was given to dealloc, and an allocate still fits.
C9_Witness ==
    /\ Live /\ ret.op = "dealloc" /\ ret.old = last /\ last # NoBlock
    /\ \E l \in Layouts : alloc(ptr, data, l).ok

\* C10: after a successful realloc the first min(old size, new size) bytes at
\* the returned address are the bytes stored at the old address.
C10_GrowKeepsBytes ==
    (Live /\ ret.op = "realloc" /\ ret.ok)
       => \A i \in 0 .. (Min(ret.old.size, last.size) - 1) :
             mem[ret.old.ptr + i] # Uninit => mem[ret.ptr + i] = mem[ret.old.ptr + i]

\* The last call stored the cursor: the arena's fields and `last` keep these
\* values until the next such call.
CursorStored == ret.ok /\ ret.op \in (AllocOps \cup BuildOps \cup ResetOps)

\* Blocks and layouts a caller may pass to realloc: the block handed out last,
\* or an address and layout of the caller's choosing.
AnyOld == Held \cup {[NoBlock EXCEPT !.ptr = data, !.size = 1, !.align = 1]}

\* C11: realloc answers as alloc(new_layout) does in the same state, whatever
\* address and old layout it is given: same Result, same address, same cursor;
\* the old block stays handed out.
C11_GrowIsAllocate ==
    /\ []((Live /\ CursorStored) => \A new_layout \in Layouts, old \in AnyOld :
                     realloc(ptr, data, old.ptr, LayoutOf(old), new_layout)
                        = alloc(ptr, data, new_layout))
    /\ [][(ret'.op = "realloc" /\ ret'.ok)
            => LET a == alloc(ptr, data, LayoutOf(last')) IN
               /\ a.ok /\ ret'.ptr = a.ptr /\ ptr' = a.cursor
               /\ RangeOf(ret'.old) \subseteq live'
               /\ RangeOf(ret'.old) \cap RangeOf(last') = {}
               /\ used' = used + last'.size]_vars
    /\ [][(ret'.op = "realloc" /\ ~ret'.ok)
            => /\ ret'.err = "AllocErr"
               /\ ptr' = ptr]_vars

\* A realloc of the block at the cursor to a larger size succeeded.
C11_Witness ==
    /\ Live /\ ret.op = "realloc" /\ ret.ok
    /\ last.size > ret.old.size
    /\ ret.old.ptr \in live

\* C12: a successful alloc_t leaves its value in every byte of the block it
\* returns; in an arena whose capacity is the value size every round returns
\* the same address, the start of the block, as the first allocation after
\* construction did, so the bytes a reference of an earlier round points to now
\* hold the new value.
C12_StoredAndReused ==
    (Live /\ ret.op = "alloc_t" /\ ret.ok)
       => /\ \A x \in RangeOf(last) : mem[x] = last.val
          /\ last.size = layout.size
                => /\ ret.ptr = data
                   /\ ret.ptr = first[LayoutOf(last)].ptr
                   /\ \A x \in Block : mem[x] = last.val

\* A round after a reset whose value replaced the different value of an
\* earlier round at the same address.
C12_Witness ==
    /\ Live /\ ret.op = "alloc_t" /\ ret.ok /\ epoch = "reset"
    /\ last.size = layout.size
    /\ ret.found \in Bytes /\ ret.found # last.val
    /\ mem[ret.ptr] = last.val

\* C13: with capacity > 0 the backing allocator is asked once; if it fails,
\* try_with_capacity_in returns AllocError with the layout asked for (size =
\* capacity, align = 1) and the allocator's error, and there is no arena; if it
\* succeeds, data is the block's address and the cursor is data + capacity.
C13_ConstructionResult ==
    (ret.op \in BuildOps /\ ret.cap > 0)
       => /\ backing.allocs = 1
          /\ ~ret.ok => /\ ret.err = "AllocError"
                        /\ ret.layout = [size |-> ret.cap, align |-> 1]
                        /\ ret.inner = "inner"
                        /\ arena = "none" /\ data = None /\ backing.block = None
                        /\ ret.op = "try_with_capacity_in" => ret.panic = "none"
          /\ ret.ok => /\ arena = "live"
                       /\ data = backing.block /\ ret.ptr = data
                       /\ layout = [size |-> ret.cap, align |-> 1]
                       /\ ptr = data + ret.cap

\* The backing allocator failed for a capacity > 0.
C13_Witness ==
    /\ ret.op = "try_with_capacity_in" /\ ret.cap > 0
    /\ ~ret.ok /\ ret.err = "AllocError" /\ ret.inner = "inner"

\* x rounded down to a multiple of a, by arithmetic
align_down(x, a) == x - (x % a)

\* C14: allocate succeeds exactly when cursor >= size and cursor - size rounded
\* down to the alignment is >= data; it then returns that address and stores it
\* as the cursor; otherwise it returns the error and the cursor stays.
C14_AllocExact ==
    Live => /\ Returned => ptr = ret.ptr
            /\ \A l \in Layouts :
                  LET r == alloc(ptr, data, l)
                      fits == /\ ptr >= l.size
                              /\ align_down(ptr - l.size, l.align) >= data
                  IN /\ r.ok <=> fits
                     /\ r.ok => /\ r.ptr = align_down(ptr - l.size, l.align)
                                /\ r.cursor = r.ptr
                     /\ ~r.ok => r.cursor = ptr /\ r.ptr = None

\* An allocate returned an address below cursor - size: it was rounded down.
C14_Witness ==
    /\ Live /\ Returned /\ ret.op = "alloc" /\ ptr = ret.ptr
    /\ (last.ptr + last.size) \in (Block \ live)

\* C15: data <= cursor <= data + capacity in every state of an arena.
C15_CursorInBlock ==
    Live => data <= ptr /\ ptr <= data + layout.size

\* The cursor reached the start of the block after a reset.
C15_Witness ==
    /\ Live /\ Returned /\ epoch = "reset"
    /\ ptr = data /\ used < layout.size

\* C16: a successful alloc, alloc_t or realloc lowers the cursor by at least the
\* requested size, a failed one and a dealloc leave it, and only reset and
\* reset_unchecked raise it, to data + capacity.
C16_CursorMonotone ==
    [][(arena = "live" /\ arena' = "live")
          => /\ (ret'.op \in AllocOps /\ ret'.ok) => ptr' <= ptr - last'.size
             /\ (ret'.op \in AllocOps /\ ~ret'.ok) => ptr' = ptr
             /\ ret'.op = "dealloc" => ptr' = ptr
             /\ ret'.op \in ResetOps => ptr' = data + layout.size /\ ptr' >= ptr
             /\ ptr' > ptr => ret'.op \in ResetOps]_vars

\* After a reset a realloc lowered the cursor by more than the requested size.
C16_Witness ==
    /\ Live /\ ret.op = "realloc" /\ ret.ok /\ epoch = "reset"
    /\ ptr + last.size < ret.old.ptr

\* C17: data, layout, the backing handle and the backing block of an arena never
\* change; reset and reset_unchecked always succeed and change only the cursor.
C17_FieldsFixed ==
    [][arena = "live"
          => /\ UNCHANGED <<data, layout, build_alloc>>
             /\ backing'.block = backing.block
             /\ ret'.op \in ResetOps
                   => /\ ret'.ok /\ ret'.err = "none"
                      /\ UNCHANGED <<arena, mem, backing>>]_vars

\* A reset of a live arena of the largest capacity has returned: the cursor is
\* at the end of the block the arena was constructed with.
C17_Witness ==
    /\ Live /\ ret.op = "reset" /\ epoch = "reset"
    /\ backing.block = data /\ ptr = data + layout.size /\ layout.size = MaxCap

\* Two threads, each calling alloc once on a small arena.
NextRace ==
    \/ TryWithCapacityIn(MaxValCap)
    \/ WithCapacityIn(MaxValCap)
    \/ AllocRead
    \/ AllocStore
    \/ AllocReturn

SpecRace == Init /\ [][NextRace]_vars

\* An arena and its clone, on a small arena.
NextClone ==
    \/ TryWithCapacityIn(MaxValCap)
    \/ WithCapacityIn(MaxValCap)
    \/ Alloc
    \/ Dealloc
    \/ ResetUnchecked
    \/ Clone
    \/ CopyAlloc
    \/ CopyResetUnchecked

SpecClone == Init /\ [][NextClone]_vars

Succeeded(t) == calls[t].pc = "done" /\ calls[t].ok
RangeOfCall(t) == Range(calls[t].ptr, calls[t].l.size)

\* C18: two alloc calls of different threads that both succeeded return
\* overlapping ranges only if one began while the other was between its read
\* and its return; calls that run one after the other never overlap.  (That
\* interleaved calls do overlap is the reachable state C18_Witness.)
C18_OverlapOnlyWhenInterleaved ==
    \A t \in Threads, u \in Threads :
       (t # u /\ Succeeded(t) /\ Succeeded(u)
          /\ RangeOfCall(t) \cap RangeOfCall(u) # {})
          => ~calls[t].alone /\ ~calls[u].alone

\* A lost update: both calls read the same cursor, both succeeded, and they
\* returned overlapping ranges.
C18_Witness ==
    /\ Succeeded(1) /\ Succeeded(2)
    /\ calls[1].seen = calls[2].seen
    /\ ~calls[1].alone /\ ~calls[2].alone
    /\ RangeOfCall(1) \cap RangeOfCall(2) # {}

\* C19: no second arena value with the same block and a cursor of its own
\* exists, and blocks handed out through different arena values never overlap.
C19_ExclusiveBlock ==
    /\ ~(copy.made /\ copy.data = data /\ copy.ptr # ptr)
    /\ live \cap copy.live = {}

====
